---- MODULE Spec2Model ----
(***************************************************************************)
(* Session list engine of the sales analytics dashboard:                   *)
(*   - useUrlState      (src/src/hooks/useUrlState.ts)                     *)
(*   - debounce         (src/src/lib/utils.ts)                             *)
(*   - SessionList      (src/src/pages/SessionList.tsx, second listing,    *)
(*                       lines 426-1261: the useInfiniteQuery version)     *)
(*   - useWebSocket     (src/src/hooks/useWebSocket.ts, second listing)    *)
(*   - apiService       (src/src/services/api.ts)                          *)
(*   - useUndoRedo      (src/unnamed/part_009)                             *)
(* The specifications of the module:                                       *)
(*   SpecUrl   - the hook alone, as renderHook(useUrlState) mounts it      *)
(*   Spec      - the session list page: hook + query cache + server        *)
(*   SpecLive  - Spec with the effect on lastMessage run fairly            *)
(*   SpecSort  - the derive step (filter + sort) over drawn inputs         *)
(*   SpecFetch - one page fetch: fetchWithRetry under the query's retry    *)
(*   SpecBulk  - selection and bulk update                                 *)
(*   SpecDetail - the session list page with the session detail modal      *)
(*   SpecDrag  - rows of the session list dragged over one another         *)
(*   SpecSelect - the selection while the score filter changes             *)
(*   SpecSocket - the connection useWebSocket keeps                        *)
(*   SpecUndo  - useUndoRedo under set, undo, redo, reset and key presses  *)
(***************************************************************************)
EXTENDS Integers, Sequences, FiniteSets, TLC

VARIABLES
    mode,           \* what is mounted: "hook" | "list" | "derive" | "fetch" | "bulk"
    defaultState,   \* useUrlState argument defaultState
    enableUrlSync,  \* useUrlState argument enableUrlSync
    searchParams,   \* the router's URLSearchParams: present keys -> string
    timer,          \* debounce's `timeout`: <<>> (none) or <<params>> (armed)
    calls,          \* history: partials passed to update since the last URL write
    queries,        \* the query cache: queryKey (a urlState) -> query state
    reqs,           \* page requests sent to the server and not yet answered
    serverTotal,    \* number of sessions the remote source holds
    created,        \* sessions the remote source stored since the page was opened
    sessions,       \* const [sessions, setSessions] = useState<Session[]>([])
    engine,         \* the JavaScript engine that runs Array.prototype.sort
    timezone,       \* the browser's time zone: local time - UTC, in hours
    derived,        \* SpecSort: <<>> or <<the list filteredSessions computed>>
    lastMessage,    \* useWebSocket's lastMessage: <<>> (null) or a message
    selectedSessions,   \* useState<Set<string>>(new Set())
    showBulkActions,    \* useState(false)
    bulkFeedback,       \* useState('')
    bulkCalls,      \* handleBulkUpdate calls waiting in `await`
    pageFetch,      \* SpecFetch: the query's running fetch of one page
    selectedSessionId,  \* useState<string | null>(null): the detail modal's session
    mounted,        \* useWebSocket: the component is mounted
    ws,             \* ws.current: <<>> (null) or the socket last created
    reconnectAttempts,  \* reconnectAttempts.current
    isConnected,        \* useState(false)
    connectionStatus,   \* useState('disconnected')
    reconnectTimer, \* the setTimeout of onclose: <<>> (none) or <<delay in ms>>
    maxHistorySize, \* useUndoRedo argument maxHistorySize
    history,        \* useUndoRedo's state: [past, present, future]
    canUndo,        \* canUndo of the last render, closed over by undo
    canRedo,        \* canRedo of the last render, closed over by redo
    supplied,       \* number of values passed to set and reset so far
    batched,        \* calls made since the last render
    keyEvent        \* the last keydown event dispatched to document, <<>> if none

urlVars == <<mode, defaultState, enableUrlSync, searchParams, timer, calls>>
listVars == <<queries, reqs, serverTotal, created, sessions>>
sortVars == <<engine, timezone, derived>>
liveVars == <<lastMessage>>
bulkVars == <<selectedSessions, showBulkActions, bulkFeedback, bulkCalls>>
fetchVars == <<pageFetch>>
socketVars == <<mounted, ws, reconnectAttempts, isConnected, connectionStatus, reconnectTimer>>
historyVars == <<maxHistorySize, history, canUndo, canRedo, supplied, batched, keyEvent>>
vars == <<mode, defaultState, enableUrlSync, searchParams, timer, calls,
          queries, reqs, serverTotal, created, sessions, engine, timezone, derived,
          lastMessage, selectedSessions, showBulkActions, bulkFeedback,
          bulkCalls, pageFetch, selectedSessionId,
          mounted, ws, reconnectAttempts, isConnected, connectionStatus, reconnectTimer,
          maxHistorySize, history, canUndo, canRedo, supplied, batched, keyEvent>>

-----------------------------------------------------------------------------
(* Bounds *)

MaxCalls == 2       \* update() calls remembered per debounce window
MaxCreated == 1     \* sessions the remote source stores while the page is open

-----------------------------------------------------------------------------
(* Component state as useState creates it *)

\* useWebSocket: useState<WebSocketMessage | null>(null)
NoMessage == lastMessage = <<>>

\* nothing selected, bulk panel closed, no bulk update under way
NoBulk ==
    /\ selectedSessions = {}
    /\ showBulkActions = FALSE
    /\ bulkFeedback = ""
    /\ bulkCalls = <<>>

\* JavaScript's null, where a string is expected
Null == "<null>"

\* useWebSocket is not part of what is mounted
NoSocket ==
    /\ mounted = FALSE
    /\ ws = <<>>
    /\ reconnectAttempts = 0
    /\ isConnected = FALSE
    /\ connectionStatus = "disconnected"
    /\ reconnectTimer = <<>>

\* useUndoRedo is not part of what is mounted
NoHistory ==
    /\ maxHistorySize = 0
    /\ history = <<>>
    /\ canUndo = FALSE
    /\ canRedo = FALSE
    /\ supplied = 0
    /\ batched = 0
    /\ keyEvent = <<>>

-----------------------------------------------------------------------------
(* JavaScript values *)

Undefined == "<undefined>"

\* typeof defaultValue, by field
NumberFields == {"pageSize", "scoreMin", "scoreMax", "page"}

\* Number(urlValue): the texts a query parameter takes in this model.
\* Number("") and Number(" ") are 0; a text that is no numeric literal is NaN.
NumericTexts == {"", " ", "0", "1", "2", "3", "5", "7", "10", "25", "50", "100"}

isNaN(text) == text \notin NumericTexts

Number(text) ==
    CASE text = ""    -> 0
      [] text = " "   -> 0
      [] text = "0"   -> 0
      [] text = "1"   -> 1
      [] text = "2"   -> 2
      [] text = "3"   -> 3
      [] text = "5"   -> 5
      [] text = "7"   -> 7
      [] text = "10"  -> 10
      [] text = "25"  -> 25
      [] text = "50"  -> 50
      [] text = "100" -> 100

\* String(value) for a number
NumberToString(n) ==
    CASE n = 0   -> "0"
      [] n = 1   -> "1"
      [] n = 2   -> "2"
      [] n = 3   -> "3"
      [] n = 5   -> "5"
      [] n = 7   -> "7"
      [] n = 10  -> "10"
      [] n = 25  -> "25"
      [] n = 50  -> "50"
      [] n = 100 -> "100"

\* value.trim() === '' for the strings of the model
BlankStrings == {"", " "}

-----------------------------------------------------------------------------
(* Program constants *)

DEFAULT_PAGE_SIZE == 50
SCORE_MIN == 0
SCORE_MAX == 10

\* SessionList's defaults for useUrlState
ListDefaults ==
    [pageSize  |-> DEFAULT_PAGE_SIZE,
     search    |-> "",
     sortBy    |-> "created_at",
     sortOrder |-> "desc",
     scoreMin  |-> SCORE_MIN,
     scoreMax  |-> SCORE_MAX,
     dateFrom  |-> "",
     dateTo    |-> "",
     team      |-> Undefined,
     sessionId |-> ""]

\* the defaults of the hook's unit test
TestDefaults == [search |-> "", page |-> 1]

-----------------------------------------------------------------------------
(* useUrlState *)

\* const state = useMemo(...): the state the hook returns for a query string
ReadState(params, defaults) ==
    [key \in DOMAIN defaults |->
        IF key \in DOMAIN params
        THEN IF key \in NumberFields
             THEN IF ~isNaN(params[key]) THEN Number(params[key]) ELSE defaults[key]
             ELSE params[key]
        ELSE defaults[key]]

state == ReadState(searchParams, defaultState)

\* the test of updateState's loop: is the key deleted rather than set
IsEmptyValue(key, value) ==
    IF key \in NumberFields THEN FALSE
    ELSE value = Undefined \/ value \in BlankStrings

StringOf(key, value) ==
    IF key \in NumberFields THEN NumberToString(value) ELSE value

\* newParams after updateState's loop over Object.entries(updates)
NewParams(params, updates) ==
    LET deleted == {key \in DOMAIN updates : IsEmptyValue(key, updates[key])}
        written == DOMAIN updates \ deleted
    IN  [key \in (DOMAIN params \ deleted) \cup written |->
            IF key \in written THEN StringOf(key, updates[key]) ELSE params[key]]

\* debounce's returned function: clearTimeout(timeout); timeout = setTimeout(...)
debounce(args) == <<args>>

\* updateState(updates)
updateState(updates) ==
    /\ IF ~enableUrlSync
       THEN /\ UNCHANGED <<searchParams, timer>>
       ELSE /\ timer' = debounce(NewParams(searchParams, updates))
            /\ UNCHANGED searchParams
    /\ UNCHANGED <<mode, defaultState, enableUrlSync>>

\* the timer fires: setSearchParams(params, { replace: true })
setSearchParams ==
    /\ timer # <<>>
    /\ searchParams' = timer[1]
    /\ timer' = <<>>
    /\ calls' = <<>>
    /\ UNCHANGED <<mode, defaultState, enableUrlSync>>

-----------------------------------------------------------------------------
(* Sessions and the remote session source *)

\* numbers of sessions the remote source holds when the page is opened
InitialTotals == {0, 4}

TitleOf(id) == IF id % 2 = 1 THEN "Alpha call" ELSE "beta call"
ScoreOf(id) == IF id % 3 = 0 THEN 9 ELSE IF id % 3 = 1 THEN 4 ELSE 7

\* a Session of SessionSchema; created_at in hours: 10:00 on the day of creation
Session(id) ==
    [id |-> id, title |-> TitleOf(id), score |-> ScoreOf(id), created_at |-> 24 * ((id + 1) \div 2) + 10]

\* title.toLowerCase()
toLowerCase(text) ==
    CASE text = "Alpha call" -> "alpha call"
      [] text = "ALPHA CALL" -> "alpha call"
      [] text = "Al"         -> "al"
      [] text = "AL "        -> "al "
      [] OTHER               -> text

\* text.trim()
trim(text) ==
    CASE text = " "   -> ""
      [] text = "al " -> "al"
      [] OTHER        -> text

\* lowerTitle.includes(term)
includes(lowerTitle, term) ==
    CASE term = ""     -> TRUE
      [] term = "al"   -> lowerTitle \in {"alpha call", "al"}
      [] term = "call" -> lowerTitle \in {"alpha call", "beta call"}
      [] term = "beta" -> lowerTitle = "beta call"
      [] OTHER         -> lowerTitle = term

RECURSIVE SelectSeqBy(_, _)
\* the ids 1..n the remote source selects for a search term, oldest first
SelectSeqBy(n, term) ==
    IF n = 0 THEN <<>>
    ELSE LET rest == SelectSeqBy(n - 1, term)
         IN  IF includes(toLowerCase(TitleOf(n)), toLowerCase(trim(term)))
             THEN Append(rest, Session(n)) ELSE rest

Reverse(s) == [i \in 1..Len(s) |-> s[Len(s) + 1 - i]]

\* what the remote source holds for a query, in the order it pages it
ServerList(key, total) ==
    LET asc == SelectSeqBy(total, key.search)
    IN  IF key.sortOrder = "asc" THEN asc ELSE Reverse(asc)

\* GET sessions?page&pageSize&...: a SessionsResponse
ServerPage(key, page, total) ==
    LET list  == ServerList(key, total)
        first == (page - 1) * key.pageSize + 1
        last  == IF page * key.pageSize < Len(list) THEN page * key.pageSize ELSE Len(list)
    IN  [sessions |-> IF first > last THEN <<>> ELSE SubSeq(list, first, last),
         total    |-> Len(list),
         page     |-> page,
         pageSize |-> key.pageSize,
         q        |-> key]

-----------------------------------------------------------------------------
(* Client-side filter/sort engine: filteredSessions *)

\* new Date(text) for a date input's value (a date-only text is read as
\* midnight UTC of that day), in hours
Date(text) ==
    CASE text = "day1" -> 24
      [] text = "day2" -> 48
      [] text = "day3" -> 72

\* time zones the browser runs in: local time minus UTC, in hours
TimeZones == {-5, 0, 5}

\* date.setHours(23, 59, 59, 999): the last instant of date's day in LOCAL
\* time.  Session times are whole hours, so 23:59:59.999 is hour 23.
setHours(date) ==
    LET local == date + timezone
    IN  (24 * (local \div 24)) + 23 - timezone

\* rank of a lower-cased title in the order of the < operator on strings
StringRank(text) ==
    CASE text = "al"         -> 1
      [] text = "alpha call" -> 2
      [] text = "beta call"  -> 3
      [] OTHER               -> 4

\* aVal / bVal of the comparator's switch
SortValue(session, sortBy) ==
    CASE sortBy = "score" -> session.score
      [] sortBy = "title" -> StringRank(toLowerCase(session.title))
      [] OTHER            -> session.created_at

\* variant: the comparator does not look at sortOrder
comparatorAscending(a, b, sortBy, sortOrder) ==
    IF SortValue(a, sortBy) > SortValue(b, sortBy) THEN 1 ELSE -1

\* the comparator passed to filtered.sort
comparator(a, b, sortBy, sortOrder) ==
    LET aVal == SortValue(a, sortBy)
        bVal == SortValue(b, sortBy)
    IN  IF sortOrder = "asc"
        THEN IF aVal > bVal THEN 1 ELSE -1
        ELSE IF aVal < bVal THEN 1 ELSE -1

\* Array.prototype.sort as V8 runs it on a short array (TimSort below its
\* merge threshold): find the leading run, reverse it when it descends, then
\* binary-insert the remaining elements.
RECURSIVE RunLength(_, _, _, _, _)
RunLength(arr, idx, isDescending, sortBy, sortOrder) ==
    IF idx > Len(arr) THEN idx - 1
    ELSE LET order == comparator(arr[idx], arr[idx - 1], sortBy, sortOrder)
         IN  IF (isDescending /\ order >= 0) \/ (~isDescending /\ order < 0)
             THEN idx - 1
             ELSE RunLength(arr, idx + 1, isDescending, sortBy, sortOrder)

RECURSIVE BinarySearch(_, _, _, _, _, _)
\* the 0-based position at which binary insertion puts pivot into arr
BinarySearch(arr, pivot, left, right, sortBy, sortOrder) ==
    IF left >= right THEN left
    ELSE LET mid   == left + ((right - left) \div 2)
             order == comparator(pivot, arr[mid + 1], sortBy, sortOrder)
         IN  IF order < 0
             THEN BinarySearch(arr, pivot, left, mid, sortBy, sortOrder)
             ELSE BinarySearch(arr, pivot, mid + 1, right, sortBy, sortOrder)

RECURSIVE BinaryInsertionSort(_, _, _, _)
\* arr[1..start-1] is sorted; insert arr[start..]
BinaryInsertionSort(arr, start, sortBy, sortOrder) ==
    IF start > Len(arr) THEN arr
    ELSE LET sorted == SubSeq(arr, 1, start - 1)
             pivot  == arr[start]
             pos    == BinarySearch(sorted, pivot, 0, start - 1, sortBy, sortOrder)
         IN  BinaryInsertionSort(
                 SubSeq(sorted, 1, pos) \o <<pivot>> \o SubSeq(sorted, pos + 1, start - 1)
                     \o SubSeq(arr, start + 1, Len(arr)),
                 start + 1, sortBy, sortOrder)

TimSort(arr, sortBy, sortOrder) ==
    IF Len(arr) < 2 THEN arr
    ELSE LET isDescending == comparator(arr[2], arr[1], sortBy, sortOrder) < 0
             runLength    == RunLength(arr, 3, isDescending, sortBy, sortOrder)
             withRun      == IF isDescending
                             THEN Reverse(SubSeq(arr, 1, runLength))
                                      \o SubSeq(arr, runLength + 1, Len(arr))
                             ELSE arr
         IN  BinaryInsertionSort(withRun, runLength + 1, sortBy, sortOrder)

\* does a session pass the frontend filters of filteredSessions
PassesFilters(session, st) ==
    /\ (st.search # "" /\ trim(st.search) # "")
           => includes(toLowerCase(session.title), trim(toLowerCase(st.search)))
    /\ (st.scoreMin > SCORE_MIN \/ st.scoreMax < SCORE_MAX)
           => (session.score >= st.scoreMin /\ session.score <= st.scoreMax)
    /\ st.dateFrom # "" => session.created_at >= Date(st.dateFrom)
    /\ st.dateTo # "" => session.created_at <= setHours(Date(st.dateTo))

RECURSIVE InsertionPoint(_, _, _, _, _)
\* the 0-based position a linear insertion from the right puts item at: it
\* stops at the first element with comparefn(element, item) <= 0
InsertionPoint(arr, item, j, sortBy, sortOrder) ==
    IF j = 0 THEN 0
    ELSE IF comparator(arr[j], item, sortBy, sortOrder) <= 0 THEN j
    ELSE InsertionPoint(arr, item, j - 1, sortBy, sortOrder)

RECURSIVE InsertionSort(_, _, _, _)
\* Array.prototype.sort as SpiderMonkey runs it on a short array
InsertionSort(arr, start, sortBy, sortOrder) ==
    IF start > Len(arr) THEN arr
    ELSE LET sorted == SubSeq(arr, 1, start - 1)
             item   == arr[start]
             pos    == InsertionPoint(sorted, item, start - 1, sortBy, sortOrder)
         IN  InsertionSort(
                 SubSeq(sorted, 1, pos) \o <<item>> \o SubSeq(sorted, pos + 1, start - 1)
                     \o SubSeq(arr, start + 1, Len(arr)),
                 start + 1, sortBy, sortOrder)

Engines == {"v8", "spidermonkey"}

\* filtered.sort(comparator): the comparator never returns 0, so the order of
\* equal keys is whatever the engine's algorithm makes of it
ArraySort(arr, sortBy, sortOrder) ==
    IF engine = "v8" THEN TimSort(arr, sortBy, sortOrder)
    ELSE InsertionSort(arr, 2, sortBy, sortOrder)

\* the chain of filtered.filter(...) calls
Filter(arr, st) ==
    LET Passes(session) == PassesFilters(session, st)
    IN  SelectSeq(arr, Passes)

\* const filteredSessions = useMemo(...)
filteredSessions(list, st) ==
    IF Len(list) = 0 THEN <<>>
    ELSE ArraySort(Filter(list, st), st.sortBy, st.sortOrder)

-----------------------------------------------------------------------------
(* Page accumulator: useInfiniteQuery over the query cache *)

undefinedParam == 0

\* a query the cache has just built: no data, nothing in flight
NewQuery ==
    [pages       |-> <<>>,        \* data.pages; <<>> while data is undefined
     fetch       |-> "idle",      \* "idle" | "initial" | "next" | "refetch"
     acc         |-> <<>>,        \* pages a running refetch has collected
     isStale     |-> FALSE]       \* invalidated

QueryOf(cache, key) == IF key \in DOMAIN cache THEN cache[key] ELSE NewQuery

Put(cache, key, query) ==
    [k \in DOMAIN cache \cup {key} |-> IF k = key THEN query ELSE cache[k]]

RECURSIVE TotalLoaded(_)
\* allPages.reduce((sum, page) => sum + page.sessions.length, 0)
TotalLoaded(allPages) ==
    IF allPages = <<>> THEN 0
    ELSE TotalLoaded(SubSeq(allPages, 1, Len(allPages) - 1))
             + Len(allPages[Len(allPages)].sessions)

\* variant: the comparison admits the case loaded-count = total
getNextPageParamInclusive(lastPage, allPages) ==
    IF TotalLoaded(allPages) <= lastPage.total THEN Len(allPages) + 1 ELSE undefinedParam

getNextPageParam(lastPage, allPages) ==
    IF TotalLoaded(allPages) < lastPage.total THEN Len(allPages) + 1 ELSE undefinedParam

hasNextPage(query) ==
    /\ query.pages # <<>>
    /\ getNextPageParam(query.pages[Len(query.pages)], query.pages) # undefinedParam

isFetchingNextPage(query) == query.fetch = "next"

RECURSIVE FlatMap(_)
\* sessionsData?.pages.flatMap(page => page.sessions) ?? []
FlatMap(pages) ==
    IF pages = <<>> THEN <<>>
    ELSE FlatMap(SubSeq(pages, 1, Len(pages) - 1)) \o pages[Len(pages)].sessions

allSessions == FlatMap(QueryOf(queries, state).pages)

\* sessionsData?.pages[0]?.total ?? 0
totalSessions ==
    IF QueryOf(queries, state).pages = <<>> THEN 0 ELSE QueryOf(queries, state).pages[1].total

\* a page request on the wire.  fate: "live" while the fetch that sent it
\* waits for it, "superseded" once fetchNextPage has cancelled that fetch
\* (queryFn passes no abort signal to fetch, so the request stays on the wire
\* and its answer is dropped).
Request(key, page, kind) == [key |-> key, page |-> page, kind |-> kind, fate |-> "live"]

\* the requests on the wire after fetchNextPage cancelled the running fetch of `key`
Supersede(wire, key) ==
    {IF r.key = key THEN [r EXCEPT !.fate = "superseded"] ELSE r : r \in wire}

\* the requests the program still waits for after invalidateQueries cancelled
\* the running fetch of `key`: the answer to the cancelled request reaches no
\* query, and the model stops following it
Forget(wire, key) == {r \in wire : r.key # key}

\* variant: a query without data is not fetched, only a stale one
SubscribeStaleOnly(cache, key) ==
    LET query == QueryOf(cache, key)
    IN  IF query.pages # <<>> /\ query.isStale /\ query.fetch = "idle"
        THEN <<Put(cache, key, [query EXCEPT !.fetch = "refetch", !.acc = <<>>]),
               {Request(key, 1, "refetch")}>>
        ELSE <<Put(cache, key, query), {}>>

\* the observer subscribes to the query of `key` (first mount, or queryKey
\* changed): fetch when there is no data or the data is stale, unless a
\* fetch of that query is already running.  Gives <<cache, requests sent>>.
Subscribe(cache, key) ==
    LET query == QueryOf(cache, key)
        kind  == IF query.pages = <<>> THEN "initial" ELSE "refetch"
    IN  IF (query.pages = <<>> \/ query.isStale) /\ query.fetch = "idle"
        THEN <<Put(cache, key, [query EXCEPT !.fetch = kind, !.acc = <<>>]),
               {Request(key, 1, kind)}>>
        ELSE <<Put(cache, key, query), {}>>

\* useEffect(() => setSessions(allSessions), [allSessions])
SyncSessions(oldPages, newPages, current) ==
    IF newPages # oldPages THEN FlatMap(newPages) ELSE current

\* the effect on [searchParams, selectedSessionId]: a sessionId in the query
\* string opens the detail modal of that session
ModalEffect(params, selected) ==
    IF "sessionId" \in DOMAIN params /\ params.sessionId # "" /\ params.sessionId # selected
    THEN params.sessionId
    ELSE selected

\* the debounce timer fires on the session list page: the URL is replaced,
\* urlState is recomputed, useInfiniteQuery observes the new queryKey and the
\* effects on searchParams run
setSearchParamsList ==
    /\ mode = "list"
    /\ setSearchParams
    /\ selectedSessionId' = ModalEffect(timer[1], selectedSessionId)
    /\ LET newKey == ReadState(timer[1], defaultState)
           sub    == Subscribe(queries, newKey)
       IN  IF newKey = state
           THEN UNCHANGED <<queries, reqs, sessions>>
           ELSE /\ queries' = sub[1]
                /\ reqs' = reqs \cup sub[2]
                /\ sessions' = SyncSessions(QueryOf(queries, state).pages,
                                            QueryOf(queries, newKey).pages, sessions)
    /\ UNCHANGED <<serverTotal, created, sortVars, socketVars, historyVars, liveVars, bulkVars, fetchVars>>

\* fetchNextPage(): a running refetch of the query is cancelled
fetchNextPage ==
    LET query == QueryOf(queries, state)
    IN  /\ queries' = Put(queries, state, [query EXCEPT !.fetch = "next", !.acc = <<>>])
        /\ reqs' = Supersede(reqs, state) \cup
               {Request(state, getNextPageParam(query.pages[Len(query.pages)], query.pages),
                        "next")}

\* variant: the effect does not look at isFetchingNextPage
ShouldFetchNextUnguarded(lastIndex, length, query) ==
    /\ lastIndex >= length - 1
    /\ hasNextPage(query)

\* the condition of the infinite scroll effect
ShouldFetchNext(lastIndex, length, query) ==
    /\ lastIndex >= length - 1
    /\ hasNextPage(query)
    /\ ~isFetchingNextPage(query)

\* the infinite scroll effect; lastIndex is the index of the last virtual item
InfiniteScrollEffect ==
    /\ mode = "list"
    /\ LET query    == QueryOf(queries, state)
           filtered == filteredSessions(sessions, state)
       IN  \E lastIndex \in 0..(Len(filtered) - 1) :
              IF ShouldFetchNext(lastIndex, Len(filtered), query)
              THEN fetchNextPage
              ELSE UNCHANGED <<queries, reqs>>
    /\ UNCHANGED <<urlVars, serverTotal, created, sessions, sortVars, selectedSessionId, socketVars, historyVars, liveVars, bulkVars, fetchVars>>

\* variant: a response is delivered to the query the page observes on arrival
TargetKeyCurrent(r) == state

\* the query a response is delivered to: the one whose queryKey the request
\* was sent for, whatever the page shows by then
TargetKey(r) == r.key

\* variant: every fetched page is appended, also the first page of a refetch
MergePagesAppend(query, page) == Append(query.pages, page)

\* data.pages once the running fetch of a query has its last page
MergePages(query, page) ==
    CASE query.fetch = "next"    -> Append(query.pages, page)
      [] query.fetch = "refetch" -> Append(query.acc, page)
      [] OTHER                   -> <<page>>

\* a page request is answered with a valid SessionsResponse
Respond(r) ==
    /\ mode = "list"
    /\ r \in reqs
    /\ LET key   == TargetKey(r)
           query == QueryOf(queries, key)
           page  == ServerPage(r.key, r.page, serverTotal)
           acc   == Append(query.acc, page)
           more  == /\ query.fetch = "refetch"
                    /\ Len(acc) < Len(query.pages)
                    /\ getNextPageParam(page, acc) # undefinedParam
           done  == [query EXCEPT
                        !.pages = MergePages(query, page), !.fetch = "idle",
                        !.acc = <<>>, !.isStale = FALSE]
       IN  IF r.fate # "live"
           THEN \* the fetch was cancelled: the response is dropped
                /\ reqs' = reqs \ {r}
                /\ UNCHANGED <<queries, sessions>>
           ELSE IF more
           THEN \* the refetch goes on with the next page
                /\ queries' = Put(queries, key, [query EXCEPT !.acc = acc])
                /\ reqs' = (reqs \ {r})
                       \cup {Request(key, getNextPageParam(page, acc), "refetch")}
                /\ UNCHANGED sessions
           ELSE /\ queries' = Put(queries, key, done)
                /\ reqs' = reqs \ {r}
                /\ sessions' = IF key = state
                               THEN SyncSessions(query.pages, done.pages, sessions)
                               ELSE sessions
    /\ UNCHANGED <<urlVars, serverTotal, created, sortVars, selectedSessionId, socketVars, historyVars, liveVars, bulkVars, fetchVars>>

\* a page request fails for good (the retries are used up)
Fail(r) ==
    /\ mode = "list"
    /\ r \in reqs
    /\ reqs' = reqs \ {r}
    /\ queries' = IF r.fate = "live"
                  THEN Put(queries, r.key,
                           [QueryOf(queries, r.key) EXCEPT !.fetch = "idle", !.acc = <<>>])
                  ELSE queries
    /\ UNCHANGED <<urlVars, serverTotal, created, sessions, sortVars, selectedSessionId, socketVars, historyVars, liveVars, bulkVars, fetchVars>>

\* queryClient.invalidateQueries({ queryKey: ['sessions'] }): every sessions
\* query becomes stale and the observed one is refetched from page 1 (a
\* running fetch of it is cancelled unless it is the first load)
invalidateQueries ==
    LET marked == [k \in DOMAIN queries |-> [queries[k] EXCEPT !.isStale = TRUE]]
        query  == marked[state]
        kind   == IF query.pages = <<>> THEN "initial" ELSE "refetch"
    IN  IF query.fetch # "idle" /\ query.pages = <<>>
        THEN /\ queries' = marked
             /\ UNCHANGED reqs
        ELSE /\ queries' = Put(marked, state, [query EXCEPT !.fetch = kind, !.acc = <<>>])
             /\ reqs' = Forget(reqs, state) \cup {Request(state, 1, kind)}

MessageTypes == {"session_created", "session_updated", "ping"}

\* ws.current.onmessage for a payload JSON.parse accepts:
\* setLastMessage(message).  lastMessage is one cell: a message that arrives
\* before the page has rendered the previous one replaces it.  effectRan
\* tells whether the effect on [lastMessage] has run for this value.
onmessage(type) ==
    /\ mode = "list"
    /\ lastMessage' = [type |-> type, effectRan |-> FALSE]
    /\ UNCHANGED <<urlVars, listVars, sortVars, selectedSessionId, socketVars, historyVars, bulkVars, fetchVars>>

\* the effect on [lastMessage, queryClient], run after the render that
\* follows setLastMessage (the toast it also shows is presentation only and
\* has no part in the model's state)
WebSocketEffect ==
    /\ mode = "list"
    /\ lastMessage # <<>>
    /\ ~lastMessage.effectRan
    /\ lastMessage' = [lastMessage EXCEPT !.effectRan = TRUE]
    /\ IF lastMessage.type = "session_created"
       THEN invalidateQueries
       ELSE IF lastMessage.type = "session_updated"
       THEN invalidateQueries
       ELSE UNCHANGED <<queries, reqs>>
    /\ UNCHANGED <<urlVars, serverTotal, created, sessions, sortVars, selectedSessionId, socketVars, historyVars, bulkVars, fetchVars>>


\* the remote source stores a new session (sessions are never deleted)
ServerCreate ==
    /\ mode = "list"
    /\ created < MaxCreated
    /\ created' = created + 1
    /\ serverTotal' = serverTotal + 1
    /\ UNCHANGED <<urlVars, queries, reqs, sessions, sortVars, selectedSessionId, socketVars, historyVars, liveVars, bulkVars, fetchVars>>

-----------------------------------------------------------------------------
(* The session list page *)

\* query strings the page is opened with
ListUrls == {<<>>, [pageSize |-> "2"]}

\* partial updates the filter controls pass to updateUrlState
ListUpdates == {[pageSize |-> 2], [pageSize |-> 50]}

Init ==
    /\ mode = "list"
    /\ defaultState = ListDefaults
    /\ enableUrlSync = TRUE
    /\ searchParams \in ListUrls
    /\ timer = <<>>
    /\ calls = <<>>
    /\ serverTotal \in InitialTotals
    /\ created = 0
    /\ queries = Subscribe(<<>>, ReadState(searchParams, ListDefaults))[1]
    /\ reqs = Subscribe(<<>>, ReadState(searchParams, ListDefaults))[2]
    /\ sessions = <<>>
    /\ engine = "v8"
    /\ timezone = 0
    /\ derived = <<>>
    /\ NoMessage
    /\ NoBulk
    /\ pageFetch = <<>>
    /\ selectedSessionId = Null
    /\ NoSocket
    /\ NoHistory

updateUrlState(updates) ==
    /\ mode = "list"
    /\ updateState(updates)
    /\ UNCHANGED <<calls, listVars, sortVars, selectedSessionId, socketVars, historyVars, liveVars, bulkVars, fetchVars>>

Next ==
    \/ \E updates \in ListUpdates : updateUrlState(updates)
    \/ setSearchParamsList
    \/ InfiniteScrollEffect
    \/ \E r \in reqs : Respond(r)
    \/ \E r \in reqs : Fail(r)
    \/ \E type \in MessageTypes : onmessage(type)
    \/ WebSocketEffect
    \/ ServerCreate

Spec == Init /\ [][Next]_vars

\* React runs a pending effect: the page always renders again after a
\* state change, and the effect runs after that render
SpecLive == Init /\ [][Next]_vars /\ WF_vars(WebSocketEffect)

-----------------------------------------------------------------------------
(* The hook alone *)

\* (defaultState, enableUrlSync) of the mounted hook: the session list's
\* call and the unit test's call
HookConfigs == {<<ListDefaults, TRUE>>, <<ListDefaults, FALSE>>, <<TestDefaults, FALSE>>}

\* texts a query parameter is given in the address bar
UrlTexts(key) ==
    CASE key = "pageSize" -> {"", "abc", "25"}
      [] key = "scoreMin" -> {" ", "7", "abc"}
      [] key = "page"     -> {"", "abc", "2"}
      [] key = "search"   -> {"deal"}

\* query strings the hook is mounted with
HookUrls(defaults) ==
    UNION {{params \in [keys -> UNION {UrlTexts(key) : key \in keys}] :
               \A key \in keys : params[key] \in UrlTexts(key)} :
           keys \in SUBSET ({"pageSize", "scoreMin", "page", "search"} \cap DOMAIN defaults)}

\* partial updates passed to the hook's update function
HookUpdates(defaults) ==
    IF defaults = TestDefaults
    THEN {[search |-> "test"], [page |-> 2]}
    ELSE {[search |-> "deal"], [search |-> ""], [team |-> "Sales"], [scoreMin |-> 7],
          [sortBy |-> "title", sortOrder |-> "asc"], ListDefaults}

InitUrl ==
    /\ mode = "hook"
    /\ \E config \in HookConfigs : defaultState = config[1] /\ enableUrlSync = config[2]
    /\ searchParams \in HookUrls(defaultState)
    /\ timer = <<>>
    /\ calls = <<>>
    /\ queries = <<>>
    /\ reqs = {}
    /\ serverTotal = 0
    /\ created = 0
    /\ sessions = <<>>
    /\ engine = "v8"
    /\ timezone = 0
    /\ derived = <<>>
    /\ NoMessage
    /\ NoBulk
    /\ pageFetch = <<>>
    /\ selectedSessionId = Null
    /\ NoSocket
    /\ NoHistory

\* update(updates) on the mounted hook
update(updates) ==
    /\ mode = "hook"
    /\ Len(calls) < MaxCalls
    /\ updateState(updates)
    /\ calls' = Append(calls, updates)
    /\ UNCHANGED <<listVars, sortVars, selectedSessionId, socketVars, historyVars, liveVars, bulkVars, fetchVars>>

\* the debounce timer fires
setSearchParamsHook ==
    /\ mode = "hook"
    /\ setSearchParams
    /\ UNCHANGED <<listVars, sortVars, selectedSessionId, socketVars, historyVars, liveVars, bulkVars, fetchVars>>

NextUrl ==
    \/ \E updates \in HookUpdates(defaultState) : update(updates)
    \/ setSearchParamsHook

SpecUrl == InitUrl /\ [][NextUrl]_vars

\* the state after update(partial), as the hook's contract has it
MergeState(st, partial) ==
    [key \in DOMAIN st |-> IF key \in DOMAIN partial THEN partial[key] ELSE st[key]]

UrlWritten == timer # <<>> /\ timer' = <<>>

\* C6: two updates within one debounce window give one URL write, and the
\* state read from the written query string is the state before the first
\* update with both partials applied in order.
C6_MergedWrite ==
    [][(UrlWritten /\ Len(calls) = 2) =>
          state' = MergeState(MergeState(state, calls[1]), calls[2])]_vars

\* C7: with URL synchronisation disabled, update(partial) changes the state
\* the hook returns to the previous state merged with partial, and writes no URL.
C7_UpdateWithoutSync ==
    [][(~enableUrlSync /\ Len(calls') = Len(calls) + 1) =>
          /\ state' = MergeState(state, calls'[Len(calls')])
          /\ searchParams' = searchParams
          /\ timer' = timer]_vars

\* C8: writing the default state through update leaves a URL without query
\* parameters, and a URL without query parameters reads as the default state.
C8_DefaultRoundTrip ==
    /\ [][(UrlWritten /\ calls # <<>> /\ calls[Len(calls)] = defaultState) =>
             DOMAIN searchParams' = {}]_vars
    /\ [](DOMAIN searchParams = {} => state = defaultState)

\* texts that are numeric literals
NumericLiterals == NumericTexts \ BlankStrings

\* C9: a numeric field whose parameter is absent or is no number (the empty
\* string included) reads as the field's default.
C9_NumericFallback ==
    \A key \in DOMAIN defaultState \cap NumberFields :
        (key \notin DOMAIN searchParams \/ searchParams[key] \notin NumericLiterals)
            => state[key] = defaultState[key]

-----------------------------------------------------------------------------
(* The derive step alone *)

MaxLen == 3     \* sessions in the accumulated collection given to the derive step

\* sessions with equal and unequal sort keys
SessionPool ==
    {[id |-> 1, title |-> "Alpha call", score |-> 4, created_at |-> 34],
     [id |-> 2, title |-> "ALPHA CALL", score |-> 4, created_at |-> 34],
     [id |-> 3, title |-> "beta call",  score |-> 9, created_at |-> 58],
     [id |-> 4, title |-> "Al",         score |-> 7, created_at |-> 34]}

\* the accumulated collections: sessions of the pool, each at most once
Collections ==
    UNION {{list \in [1..n -> SessionPool] :
               \A i, j \in 1..n : i # j => list[i].id # list[j].id} : n \in 0..MaxLen}

SortUrls ==
    {[sortBy |-> by, sortOrder |-> order] :
        by \in {"score", "created_at", "title"}, order \in {"asc", "desc"}}

\* query parameters of the filters the derive step applies
FilterTexts(key) ==
    CASE key = "search"   -> {"AL "}
      [] key = "scoreMin" -> {"5"}
      [] key = "scoreMax" -> {"7"}
      [] key = "dateFrom" -> {"day2"}
      [] key = "dateTo"   -> {"day2"}

FilterUrls ==
    UNION {{params \in [keys -> {"AL ", "5", "7", "day2"}] :
               \A key \in keys : params[key] \in FilterTexts(key)} :
           keys \in SUBSET {"search", "scoreMin", "scoreMax", "dateFrom", "dateTo"}}

\* f @@ g for query strings with disjoint keys
Merge(f, g) ==
    [key \in DOMAIN f \cup DOMAIN g |-> IF key \in DOMAIN f THEN f[key] ELSE g[key]]

DeriveUrls == {Merge(sort, filter) : sort \in SortUrls, filter \in FilterUrls}

InitSort ==
    /\ mode = "derive"
    /\ defaultState = ListDefaults
    /\ enableUrlSync = TRUE
    /\ searchParams \in DeriveUrls
    /\ timer = <<>>
    /\ calls = <<>>
    /\ queries = <<>>
    /\ reqs = {}
    /\ serverTotal = 0
    /\ created = 0
    /\ sessions \in Collections
    /\ engine \in Engines
    /\ timezone \in TimeZones
    /\ derived = <<>>
    /\ NoMessage
    /\ NoBulk
    /\ pageFetch = <<>>
    /\ selectedSessionId = Null
    /\ NoSocket
    /\ NoHistory

\* the component renders: filteredSessions is computed
Derive ==
    /\ mode = "derive"
    /\ derived = <<>>
    /\ derived' = <<filteredSessions(sessions, state)>>
    /\ UNCHANGED <<urlVars, listVars, engine, timezone, selectedSessionId, socketVars, historyVars, liveVars, bulkVars, fetchVars>>

NextSort == Derive

SpecSort == InitSort /\ [][NextSort]_vars

\* the 1-based position of the session with this id in a list, 0 if absent
RECURSIVE IndexOf(_, _)
IndexOf(list, id) ==
    IF list = <<>> THEN 0
    ELSE IF list[Len(list)].id = id THEN Len(list)
    ELSE IndexOf(SubSeq(list, 1, Len(list) - 1), id)

\* C10: two sessions with equal sort key keep their relative order of the
\* accumulated collection in the derived list.
C10_StableSort ==
    derived # <<>> =>
        \A i, j \in 1..Len(sessions) :
            (/\ i < j
             /\ SortValue(sessions[i], state.sortBy) = SortValue(sessions[j], state.sortBy)
             /\ IndexOf(derived[1], sessions[i].id) # 0
             /\ IndexOf(derived[1], sessions[j].id) # 0)
            => IndexOf(derived[1], sessions[i].id) < IndexOf(derived[1], sessions[j].id)

\* the sort keys of a list, in the list's order
Keys(list, sortBy) == [i \in 1..Len(list) |-> SortValue(list[i], sortBy)]

\* C11: the derived list is ordered by the selected sort key, non-decreasing
\* for asc and non-increasing for desc, titles being compared in lower case.
C11_Ordered ==
    derived # <<>> =>
        LET keys == Keys(derived[1], state.sortBy)
        IN  \A i, j \in 1..Len(keys) :
                i < j => IF state.sortOrder = "asc"
                         THEN keys[i] <= keys[j]
                         ELSE keys[i] >= keys[j]

\* scores [4, 9, 7] sorted by score, desc, give [9, 7, 4]
C11_Witness ==
    /\ derived # <<>>
    /\ state.sortBy = "score"
    /\ state.sortOrder = "desc"
    /\ Keys(sessions, "score") = <<4, 9, 7>>
    /\ Keys(derived[1], "score") = <<9, 7, 4>>

\* C12: for every pair of sessions and every sort key the comparator's result
\* under desc is the negation of its result under asc.
C12_DescNegatesAsc ==
    derived # <<>> =>
        \A i, j \in 1..Len(sessions) : \A sortBy \in {"score", "created_at", "title"} :
            comparator(sessions[i], sessions[j], sortBy, "desc")
                = 0 - comparator(sessions[i], sessions[j], sortBy, "asc")

\* the calendar day of an instant, in UTC and in the browser's local time
DayUTC(time) == time \div 24
DayLocal(time) == (time + timezone) \div 24

\* is a calendar day within the date range of a filter state
DayInRange(day, st) ==
    /\ st.dateFrom # "" => day >= DayUTC(Date(st.dateFrom))
    /\ st.dateTo # "" => day <= DayUTC(Date(st.dateTo))

\* the search term is part of the title, letter case and outer blanks aside
TitleMatches(session, st) ==
    includes(toLowerCase(session.title), trim(toLowerCase(st.search)))

ScoreInRange(session, st) ==
    session.score >= st.scoreMin /\ session.score <= st.scoreMax

\* C13: the derive step leaves the accumulated collection alone and its
\* result holds exactly the accumulated sessions whose title contains the
\* search term, whose score is in [scoreMin, scoreMax] and whose creation
\* time is in [dateFrom, dateTo].  The date range is read generously: a
\* session missing from the result must be outside the range by the UTC
\* calendar or by the local one, a session in the result inside it by one.
C13_DeriveExact ==
    [][derived' # derived =>
        /\ sessions' = sessions
        /\ \A i \in 1..Len(sessions) :
              LET session == sessions[i]
                  inList  == IndexOf(derived'[1], session.id) # 0
                  other   == TitleMatches(session, state) /\ ScoreInRange(session, state)
                  at      == session.created_at
              IN  /\ inList => /\ other
                               /\ \/ DayInRange(DayUTC(at), state)
                                  \/ DayInRange(DayLocal(at), state)
                  /\ (/\ other
                      /\ DayInRange(DayUTC(at), state)
                      /\ DayInRange(DayLocal(at), state)) => inList]_vars

-----------------------------------------------------------------------------
(* Properties of the page accumulator *)

CurrentQuery == QueryOf(queries, state)
LoadedCount == TotalLoaded(CurrentQuery.pages)
LastTotal == CurrentQuery.pages[Len(CurrentQuery.pages)].total
PageOneRequested(key, wire) ==
    \E r \in wire : r.key = key /\ r.page = 1 /\ r.fate = "live"

C2_NoEpochMix ==
    /\ \A key \in DOMAIN queries :
          /\ \A i \in 1..Len(queries[key].pages) : queries[key].pages[i].q = key
          /\ \A i \in 1..Len(queries[key].acc) : queries[key].acc[i].q = key
    /\ mode = "list" => sessions = FlatMap(CurrentQuery.pages)

\* the state changed while page 2 of the previous state was in flight, and
\* the first page of the new state is already shown
C2_Witness ==
    /\ mode = "list"
    /\ CurrentQuery.pages # <<>>
    /\ \E r \in reqs : r.key # state /\ r.page = 2 /\ r.kind = "next" /\ r.fate = "live"

\* C3: a next page is requested only while the pages fetched so far hold
\* fewer sessions than the last response's total, and it is the page after
\* them; once loaded-count equals that total the scroll effect sends nothing.
\* With page size 2 and total 5 the loaded-count is 2, 4 or 5.
C3_NextPageRule ==
    /\ [][\A r \in reqs' \ reqs : r.kind = "next" =>
              /\ TotalLoaded(queries[r.key].pages)
                    < queries[r.key].pages[Len(queries[r.key].pages)].total
              /\ r.page = Len(queries[r.key].pages) + 1]_vars
    /\ [][(CurrentQuery.pages # <<>> /\ LoadedCount >= LastTotal /\ InfiniteScrollEffect)
              => UNCHANGED vars]_vars
    /\ [](/\ mode = "list"
          /\ state.pageSize = 2
          /\ CurrentQuery.pages # <<>>
          /\ \A i \in 1..Len(CurrentQuery.pages) : CurrentQuery.pages[i].total = 5
          => /\ LoadedCount \in {2, 4, 5}
             /\ LoadedCount = 2 * Len(CurrentQuery.pages) \/ LoadedCount = 5
             /\ LoadedCount = 5 => ~hasNextPage(CurrentQuery))

\* page size 2, total 5: three pages are loaded, loaded-count is 5
C3_Witness ==
    /\ mode = "list"
    /\ state.pageSize = 2
    /\ Len(CurrentQuery.pages) = 3
    /\ \A i \in 1..3 : CurrentQuery.pages[i].total = 5
    /\ LoadedCount = 5
    /\ ~hasNextPage(CurrentQuery)

-----------------------------------------------------------------------------
(* Properties of the live update listener *)

\* message types the effect answers with invalidateQueries
InvalidatingTypes == {"session_created", "session_updated"}

\* a message of this type was received and the effect has not run for it
Received(type) == lastMessage = [type |-> type, effectRan |-> FALSE]

\* the effect has run for a message that invalidates the sessions queries
Invalidated ==
    /\ lastMessage # <<>>
    /\ lastMessage.effectRan
    /\ lastMessage.type \in InvalidatingTypes

\* C17: every notification received with type session_created or
\* session_updated is eventually followed by the effect's invalidateQueries
\* call (the effect runs for it or for a later notification of such a type).
C17_NotificationInvalidates ==
    \A type \in InvalidatingTypes : Received(type) ~> Invalidated

-----------------------------------------------------------------------------
(* The transport: fetchWithRetry, getSessions and the query's retryer *)

RETRY_ATTEMPTS == 3         \* API_CONFIG.RETRY_ATTEMPTS

RECURSIVE pow(_, _)
\* Math.pow(base, exponent)
pow(base, exponent) == IF exponent = 0 THEN 1 ELSE base * pow(base, exponent - 1)

\* what the remote source makes of one HTTP request: fetch() rejects, or it
\* resolves with a 4xx, a 5xx or a 2xx response
Outcomes == {"networkError", "http4xx", "http5xx", "ok"}

\* a call of fetchWithRetry(url, options) that has sent its first request.
\*   i        the loop variable
\*   pc       "fetch": waits for the answer to request i; "backoff": waits
\*            in setTimeout; "return" / "throw": the call has ended
\*   delay    the time the running setTimeout was set to, ms
\*   requests HTTP requests sent so far
\*   error    what the call threw
NewCall == [i |-> 0, pc |-> "fetch", delay |-> 0, requests |-> 1, error |-> ""]

\* fetchWithRetry: the loop body from the answer to request i up to the next
\* await (the next fetch, the setTimeout) or to the end of the call
fetchWithRetry(call, outcome, retries) ==
    CASE outcome = "ok" ->
             [call EXCEPT !.pc = "return"]
      [] outcome = "networkError" ->
             IF call.i = retries - 1
             THEN [call EXCEPT !.pc = "throw", !.error = "TypeError"]
             ELSE [call EXCEPT !.pc = "backoff", !.delay = pow(2, call.i) * 1000]
      [] OTHER ->
             \* response.ok is false
             IF outcome = "http4xx" /\ call.i = retries - 1
             THEN [call EXCEPT !.pc = "throw", !.error = "ApiError"]
             ELSE IF call.i + 1 < retries
             THEN [call EXCEPT !.i = call.i + 1, !.requests = call.requests + 1]
             ELSE [call EXCEPT !.pc = "throw", !.error = "Max retries exceeded"]

\* the setTimeout of the catch block fires: the loop goes on with i + 1
backoffElapsed(call) ==
    [call EXCEPT !.i = call.i + 1, !.pc = "fetch", !.delay = 0,
                 !.requests = call.requests + 1]

\* bodies of a 2xx answer to GET sessions: one SessionsResponseSchema
\* accepts, one it rejects
Bodies == {"valid", "invalid"}

\* the query (queries: { retry: API_CONFIG.RETRY_ATTEMPTS }) after its
\* queryFn rejected with `error`: it waits and calls queryFn again while
\* failureCount < retry, then it is in the error state.  No retryDelay is
\* configured: the wait is the library's default, 1000 * 2^failureCount ms.
retryer(fetch, error) ==
    IF fetch.failureCount < RETRY_ATTEMPTS
    THEN [fetch EXCEPT !.failureCount = fetch.failureCount + 1,
                       !.pc = "retryDelay", !.error = error,
                       !.delay = 1000 * pow(2, fetch.failureCount)]
    ELSE [fetch EXCEPT !.pc = "error", !.error = error]

\* getSessions after fetchWithRetry has ended
getSessions(fetch, body) ==
    IF fetch.pc = "throw" THEN retryer(fetch, fetch.error)
    ELSE IF fetch.pc = "return" THEN [fetch EXCEPT !.pc = "json", !.body = body]
    ELSE fetch

\* pages of the list the query fetches
FetchPages == {1, 2}

InitFetch ==
    /\ mode = "fetch"
    /\ defaultState = ListDefaults
    /\ enableUrlSync = TRUE
    /\ searchParams = <<>>
    /\ timer = <<>>
    /\ calls = <<>>
    /\ queries = <<>>
    /\ reqs = {}
    /\ serverTotal = 0
    /\ created = 0
    /\ sessions = <<>>
    /\ engine = "v8"
    /\ timezone = 0
    /\ derived = <<>>
    /\ NoMessage
    /\ NoBulk
    /\ selectedSessionId = Null
    /\ NoSocket
    /\ NoHistory
    /\ \E page \in FetchPages :
          pageFetch = NewCall @@ [page |-> page, failureCount |-> 0, body |-> ""]

\* the remote source answers the HTTP request the fetch waits for
HttpResponse(outcome, body) ==
    /\ mode = "fetch"
    /\ pageFetch.pc = "fetch"
    /\ pageFetch' = getSessions(fetchWithRetry(pageFetch, outcome, RETRY_ATTEMPTS), body)
    /\ UNCHANGED <<urlVars, listVars, sortVars, selectedSessionId, socketVars, historyVars, liveVars, bulkVars>>

\* fetchWithRetry's setTimeout fires
BackoffElapsed ==
    /\ mode = "fetch"
    /\ pageFetch.pc = "backoff"
    /\ pageFetch' = backoffElapsed(pageFetch)
    /\ UNCHANGED <<urlVars, listVars, sortVars, selectedSessionId, socketVars, historyVars, liveVars, bulkVars>>

\* response.json() resolves: SessionsResponseSchema.parse(data) returns the
\* page or throws a ZodError
Parse ==
    /\ mode = "fetch"
    /\ pageFetch.pc = "json"
    /\ pageFetch' = IF pageFetch.body = "valid"
                    THEN [pageFetch EXCEPT !.pc = "success"]
                    ELSE retryer(pageFetch, "ZodError")
    /\ UNCHANGED <<urlVars, listVars, sortVars, selectedSessionId, socketVars, historyVars, liveVars, bulkVars>>

\* the query's retry delay is over: queryFn is called again
RetryDelayElapsed ==
    /\ mode = "fetch"
    /\ pageFetch.pc = "retryDelay"
    /\ pageFetch' = [pageFetch EXCEPT !.i = 0, !.pc = "fetch", !.delay = 0, !.body = "",
                                      !.requests = pageFetch.requests + 1]
    /\ UNCHANGED <<urlVars, listVars, sortVars, selectedSessionId, socketVars, historyVars, liveVars, bulkVars>>

NextFetch ==
    \/ \E outcome \in Outcomes, body \in Bodies : HttpResponse(outcome, body)
    \/ BackoffElapsed
    \/ Parse
    \/ RetryDelayElapsed

SpecFetch == InitFetch /\ [][NextFetch]_vars

\* C14: a page fetch sends at most RETRY_ATTEMPTS HTTP requests.
C14_AtMostThreeRequests ==
    pageFetch # <<>> => pageFetch.requests <= RETRY_ATTEMPTS

\* C15: fetchWithRetry goes from attempt i to attempt i + 1 only through a
\* wait of 1000 * 2^i ms, whatever made attempt i fail.
C15_BackoffBeforeNextAttempt ==
    [][(pageFetch # <<>> /\ pageFetch'.i = pageFetch.i + 1)
          => (pageFetch.pc = "backoff" /\ pageFetch.delay = 1000 * pow(2, pageFetch.i))]_vars

\* C16: a 2xx answer whose body fails the schema is retried the way a
\* failed request is: in an attempt that is not fetchWithRetry's last one,
\* the fetch goes on with fetchWithRetry's wait and next attempt.
C16_InvalidBodyRetried ==
    [][(/\ pageFetch # <<>>
        /\ pageFetch.pc = "json"
        /\ pageFetch.body = "invalid"
        /\ pageFetch.i < RETRY_ATTEMPTS - 1
        /\ pageFetch' # pageFetch)
          => (/\ pageFetch'.pc = "backoff"
              /\ pageFetch'.failureCount = pageFetch.failureCount)]_vars

-----------------------------------------------------------------------------
(* Selection and bulk update *)

MaxBulkCalls == 1   \* handleBulkUpdate calls made while the page is open

BULK_MAX_IDS == 100     \* BulkUpdateSchema: session_ids has at most 100 ids

\* numbers of sessions loaded when the bulk panel is used
BulkListSizes == {2, BULK_MAX_IDS + 1}

\* positions in the session list of the rows whose checkbox the user clicks
ClickedRows == {1}

\* texts typed into the bulk feedback input
FeedbackTexts == {"", " ", "Good call"}

InitBulk ==
    /\ mode = "bulk"
    /\ defaultState = ListDefaults
    /\ enableUrlSync = TRUE
    /\ searchParams = <<>>
    /\ timer = <<>>
    /\ calls = <<>>
    /\ queries = <<>>
    /\ reqs = {}
    /\ serverTotal = 0
    /\ created = 0
    /\ \E n \in BulkListSizes : sessions = [i \in 1..n |-> Session(i)]
    /\ engine = "v8"
    /\ timezone = 0
    /\ derived = <<>>
    /\ NoMessage
    /\ NoBulk
    /\ pageFetch = <<>>
    /\ selectedSessionId = Null
    /\ NoSocket
    /\ NoHistory

\* filteredSessions.map(s => s.id) as a set: the ids of the sessions that
\* pass the filters.  Ids are unique and sorting changes neither the ids nor
\* their number, so the set's size is filteredSessions.length.
FilteredIds ==
    LET st == state
    IN  {sessions[i].id : i \in {j \in 1..Len(sessions) : PassesFilters(sessions[j], st)}}

\* the Bulk Actions / Cancel button
toggleBulkActions ==
    /\ mode = "bulk"
    /\ showBulkActions' = ~showBulkActions
    /\ UNCHANGED <<urlVars, listVars, sortVars, selectedSessionId, socketVars, historyVars, liveVars, fetchVars,
                   selectedSessions, bulkFeedback, bulkCalls>>

\* the Select All / Deselect All button of the bulk panel
handleSelectAll ==
    /\ mode = "bulk"
    /\ showBulkActions
    /\ selectedSessions' = IF Cardinality(selectedSessions) = Cardinality(FilteredIds)
                           THEN {}
                           ELSE FilteredIds
    /\ UNCHANGED <<urlVars, listVars, sortVars, selectedSessionId, socketVars, historyVars, liveVars, fetchVars,
                   showBulkActions, bulkFeedback, bulkCalls>>

\* the checkbox of a row: onSelect(e.target.checked)
onSelect(id, selected) ==
    /\ mode = "bulk"
    /\ showBulkActions
    /\ selectedSessions' = IF selected
                           THEN selectedSessions \cup {id}
                           ELSE selectedSessions \ {id}
    /\ UNCHANGED <<urlVars, listVars, sortVars, selectedSessionId, socketVars, historyVars, liveVars, fetchVars,
                   showBulkActions, bulkFeedback, bulkCalls>>

\* the bulk feedback input, rendered while something is selected
setBulkFeedback(text) ==
    /\ mode = "bulk"
    /\ showBulkActions
    /\ selectedSessions # {}
    /\ bulkFeedback' = text
    /\ UNCHANGED <<urlVars, listVars, sortVars, selectedSessionId, socketVars, historyVars, liveVars, fetchVars,
                   selectedSessions, showBulkActions, bulkCalls>>

\* handleBulkUpdate up to its await: apiService.bulkUpdateSessions sends the
\* first request.  The call keeps the selection and the text it was made with.
handleBulkUpdate ==
    /\ mode = "bulk"
    /\ showBulkActions
    /\ Len(bulkCalls) < MaxBulkCalls
    /\ ~(selectedSessions = {} \/ trim(bulkFeedback) = "")
    /\ bulkCalls' = Append(bulkCalls,
                        NewCall @@ [session_ids |-> selectedSessions,
                                    feedback    |-> bulkFeedback])
    /\ UNCHANGED <<urlVars, listVars, sortVars, selectedSessionId, socketVars, historyVars, liveVars, fetchVars,
                   selectedSessions, showBulkActions, bulkFeedback>>

\* prev.map(session => selectedSessions.has(session.id)
\*                         ? { ...session, feedback: bulkFeedback } : session)
WithFeedback(list, ids, text) ==
    [i \in 1..Len(list) |->
        IF list[i].id \in ids
        THEN [field \in DOMAIN list[i] \cup {"feedback"} |->
                 IF field = "feedback" THEN text ELSE list[i][field]]
        ELSE list[i]]

\* handleBulkUpdate after the await resolved (the session detail queries it
\* also invalidates are not part of the model)
handleBulkUpdateThen(call) ==
    /\ sessions' = WithFeedback(sessions, call.session_ids, call.feedback)
    /\ selectedSessions' = {}
    /\ bulkFeedback' = ""
    /\ showBulkActions' = FALSE

\* variant: the catch block clears the selection
handleBulkUpdateCatchClears ==
    /\ selectedSessions' = {}
    /\ UNCHANGED <<sessions, bulkFeedback, showBulkActions>>

\* handleBulkUpdate's catch block: `// Silent error handling`
handleBulkUpdateCatch ==
    UNCHANGED <<sessions, selectedSessions, bulkFeedback, showBulkActions>>

\* the remote source answers the request bulk call k waits for; when that
\* ends fetchWithRetry, handleBulkUpdate goes on after its await.  A call
\* that has ended stays in bulkCalls with pc "return" or "throw".
BulkHttpResponse(k, outcome) ==
    /\ mode = "bulk"
    /\ bulkCalls[k].pc = "fetch"
    /\ LET call == fetchWithRetry(bulkCalls[k], outcome, RETRY_ATTEMPTS)
       IN  /\ bulkCalls' = [bulkCalls EXCEPT ![k] = call]
           /\ CASE call.pc = "return" -> handleBulkUpdateThen(call)
                [] call.pc = "throw"  -> handleBulkUpdateCatch
                [] OTHER              ->
                       UNCHANGED <<sessions, selectedSessions, bulkFeedback, showBulkActions>>
    /\ UNCHANGED <<urlVars, queries, reqs, serverTotal, created, sortVars, selectedSessionId, socketVars, historyVars, liveVars, fetchVars>>

\* the setTimeout of bulk call k's fetchWithRetry fires
BulkBackoffElapsed(k) ==
    /\ mode = "bulk"
    /\ bulkCalls[k].pc = "backoff"
    /\ bulkCalls' = [bulkCalls EXCEPT ![k] = backoffElapsed(bulkCalls[k])]
    /\ UNCHANGED <<urlVars, listVars, sortVars, selectedSessionId, socketVars, historyVars, liveVars, fetchVars,
                   selectedSessions, showBulkActions, bulkFeedback>>

NextBulk ==
    \/ toggleBulkActions
    \/ handleSelectAll
    \/ \E k \in ClickedRows \cap (1..Len(sessions)) :
           onSelect(sessions[k].id, sessions[k].id \notin selectedSessions)
    \/ \E text \in FeedbackTexts : setBulkFeedback(text)
    \/ handleBulkUpdate
    \/ \E k \in 1..Len(bulkCalls), outcome \in Outcomes : BulkHttpResponse(k, outcome)
    \/ \E k \in 1..Len(bulkCalls) : BulkBackoffElapsed(k)

SpecBulk == InitBulk /\ [][NextBulk]_vars

\* bulk call k fails in this step
BulkFails(k) == bulkCalls[k].pc # "throw" /\ bulkCalls'[k].pc = "throw"

\* C18: when a bulk update fails, the selection set, the bulk feedback text
\* and the local session list are as they were before.
C18_FailureKeepsSelection ==
    [][\A k \in 1..Len(bulkCalls) :
          BulkFails(k) => UNCHANGED <<selectedSessions, bulkFeedback, sessions>>]_vars

\* a bulk update has failed and its selection and text are still there
C18_Witness ==
    \E k \in 1..Len(bulkCalls) :
        /\ bulkCalls[k].pc = "throw"
        /\ selectedSessions = bulkCalls[k].session_ids
        /\ bulkFeedback = bulkCalls[k].feedback

\* what the page renders from
RendererState ==
    <<state, queries, sessions, lastMessage, selectedSessions, showBulkActions, bulkFeedback>>

\* C19: the failure of a bulk update changes something the renderer can
\* see, so that a failed update differs from one never made.
C19_FailureSurfaced ==
    [][\A k \in 1..Len(bulkCalls) :
          BulkFails(k) => RendererState' # RendererState]_vars

\* C20: a bulk update request carries at most 100 session ids.
C20_AtMostHundredIds ==
    \A k \in 1..Len(bulkCalls) : Cardinality(bulkCalls[k].session_ids) <= BULK_MAX_IDS

-----------------------------------------------------------------------------
(* Rows dragged over one another *)

\* the updater moveRow passes to setSessions, for 0-based indexes inside the
\* list: splice(dragIndex, 1) takes the element out, splice(hoverIndex, 0,
\* draggedSession) puts it in front of the element then at hoverIndex
moveRow(prev, dragIndex, hoverIndex) ==
    LET draggedSession == prev[dragIndex + 1]
        removed == SubSeq(prev, 1, dragIndex) \o SubSeq(prev, dragIndex + 2, Len(prev))
    IN  SubSeq(removed, 1, hoverIndex) \o <<draggedSession>>
            \o SubSeq(removed, hoverIndex + 1, Len(removed))

\* the index prop of the rows rendered: positions in filteredSessions
RowIndexes == 0..(Len(filteredSessions(sessions, state)) - 1)

\* useDrop's hover of the row rendered at `index`, with the dragged item
\* last seen at item.index = itemIndex
hover(itemIndex, index) ==
    /\ mode = "drag"
    /\ itemIndex \in RowIndexes
    /\ index \in RowIndexes
    /\ itemIndex # index
    /\ sessions' = moveRow(sessions, itemIndex, index)
    /\ UNCHANGED <<urlVars, queries, reqs, serverTotal, created, sortVars, selectedSessionId,
                   socketVars, historyVars, liveVars, bulkVars, fetchVars>>

\* the page has loaded its first page, of 3 or 4 sessions, under a query
\* string that sorts or filters, and nothing else is going on
InitDrag ==
    /\ mode = "drag"
    /\ defaultState = ListDefaults
    /\ enableUrlSync = TRUE
    /\ searchParams \in SortUrls \cup {<<>>, [scoreMin |-> "5"]}
    /\ timer = <<>>
    /\ calls = <<>>
    /\ queries = <<>>
    /\ reqs = {}
    /\ serverTotal \in {3, 4}
    /\ created = 0
    /\ sessions = ServerPage(ReadState(searchParams, ListDefaults), 1, serverTotal).sessions
    /\ engine \in Engines
    /\ timezone = 0
    /\ derived = <<>>
    /\ NoMessage
    /\ NoBulk
    /\ pageFetch = <<>>
    /\ selectedSessionId = Null
    /\ NoSocket
    /\ NoHistory

NextDrag == \E itemIndex, index \in RowIndexes : hover(itemIndex, index)

SpecDrag == InitDrag /\ [][NextDrag]_vars

\* the list with the element at 0-based position i taken out and put back
\* at 0-based position j
Reinserted(list, i, j) ==
    LET rest == [k \in 1..(Len(list) - 1) |-> IF k <= i THEN list[k] ELSE list[k + 1]]
    IN  [k \in 1..Len(list) |->
            IF k <= j THEN rest[k] ELSE IF k = j + 1 THEN list[i + 1] ELSE rest[k - 1]]

\* C21: after the row displayed at position i is dragged over the row
\* displayed at position j, the displayed list is the list displayed before
\* with that row removed and re-inserted at position j, whatever the sort
\* key, sort order and filters are.
C21_DragMovesDisplayedRow ==
    [][\A i, j \in RowIndexes :
          hover(i, j) =>
              filteredSessions(sessions', state') = Reinserted(filteredSessions(sessions, state), i, j)]_vars

-----------------------------------------------------------------------------
(* The session detail modal *)

\* session.id as the query string carries it (the model numbers the sessions)
SessionIdText(id) == <<"1", "2", "3", "4", "5", "6">>[id]

\* setSearchParams(prev => ...) of the row and of the modal: the URL is
\* replaced on the spot, urlState is recomputed and useInfiniteQuery observes
\* the new queryKey
Navigate(params) ==
    /\ searchParams' = params
    /\ LET newKey == ReadState(params, defaultState)
           sub    == Subscribe(queries, newKey)
       IN  IF newKey = state
           THEN UNCHANGED <<queries, reqs, sessions>>
           ELSE /\ queries' = sub[1]
                /\ reqs' = reqs \cup sub[2]
                /\ sessions' = SyncSessions(QueryOf(queries, state).pages,
                                            QueryOf(queries, newKey).pages, sessions)

\* SessionRow's onClick for the row of `session`
onClick(session) ==
    /\ mode = "list"
    /\ LET id == SessionIdText(session.id)
           newParams == [key \in DOMAIN searchParams \cup {"sessionId"} |->
                            IF key = "sessionId" THEN id ELSE searchParams[key]]
       IN  /\ Navigate(newParams)
           /\ selectedSessionId' = ModalEffect(newParams, id)
    /\ UNCHANGED <<mode, defaultState, enableUrlSync, timer, calls, serverTotal, created,
                   sortVars, socketVars, historyVars, liveVars, bulkVars, fetchVars>>

\* SessionDetailModal's onClose.  The modal is rendered once the page is
\* past its two early returns, the spinner of `isLoading && !sessionsData`
\* and the "No sessions found" of `!isLoading && allSessions.length === 0`.
onClose ==
    /\ mode = "list"
    /\ allSessions # <<>>
    /\ selectedSessionId # Null
    /\ LET newParams == [key \in DOMAIN searchParams \ {"sessionId"} |-> searchParams[key]]
       IN  /\ Navigate(newParams)
           /\ selectedSessionId' = ModalEffect(newParams, Null)
    /\ UNCHANGED <<mode, defaultState, enableUrlSync, timer, calls, serverTotal, created,
                   sortVars, socketVars, historyVars, liveVars, bulkVars, fetchVars>>

\* the session list page with its rows clicked and the modal closed
NextDetail ==
    \/ \E updates \in ListUpdates : updateUrlState(updates)
    \/ setSearchParamsList
    \/ InfiniteScrollEffect
    \/ \E r \in reqs : Respond(r)
    \/ \E k \in ClickedRows \cap (1..Len(filteredSessions(sessions, state))) :
           onClick(filteredSessions(sessions, state)[k])
    \/ onClose

SpecDetail == Init /\ [][NextDetail]_vars

\* the query string without its sessionId parameter
FilterParams(params) == [key \in DOMAIN params \ {"sessionId"} |-> params[key]]

\* the step changes the sessionId parameter of the URL and nothing else of it
OnlySessionIdChanges ==
    /\ searchParams' # searchParams
    /\ FilterParams(searchParams') = FilterParams(searchParams)

\* C22: a change of only the sessionId URL parameter starts no new epoch: the
\* accumulated pages and the loaded-count are as before and no session page
\* request is sent.
C22_DetailKeepsEpoch ==
    [][OnlySessionIdChanges =>
          /\ allSessions' = allSessions
          /\ sessions' = sessions
          /\ LoadedCount' = LoadedCount
          /\ reqs' \subseteq reqs]_vars

\* the sessionId parameter of a query string, Null when it has none
SessionIdOf(params) == IF "sessionId" \in DOMAIN params THEN params.sessionId ELSE Null

\* C28: when a debounced filter write fires, the URL keeps the sessionId the
\* row click or the modal's close left in it, and the modal stays as it was.
C28_DebouncedWriteKeepsDetail ==
    [][setSearchParamsList =>
          /\ SessionIdOf(searchParams') = SessionIdOf(searchParams)
          /\ selectedSessionId' = selectedSessionId]_vars

-----------------------------------------------------------------------------
(* Selection while the filters change *)

\* the score filter calls updateUrlState while the bulk panel is open
updateUrlStateBulk(updates) ==
    /\ mode = "bulk"
    /\ updateState(updates)
    /\ UNCHANGED <<calls, listVars, sortVars, selectedSessionId, socketVars, historyVars, liveVars, bulkVars,
                   fetchVars>>

\* the debounce timer fires while the bulk panel is open.  The remote source
\* answers the new queryKey with the sessions it answered the old one with
\* (the score filter is applied by filteredSessions), so that the list is
\* the same once it is loaded again; the selection is state of the page and
\* stays.
setSearchParamsBulk ==
    /\ mode = "bulk"
    /\ setSearchParams
    /\ UNCHANGED <<listVars, sortVars, selectedSessionId, socketVars, historyVars, liveVars, bulkVars, fetchVars>>

NextSelect ==
    \/ toggleBulkActions
    \/ handleSelectAll
    \/ \E id \in {1, 2} \cap FilteredIds : onSelect(id, id \notin selectedSessions)
    \/ \E updates \in {[scoreMin |-> 5], [scoreMin |-> 0]} : updateUrlStateBulk(updates)
    \/ setSearchParamsBulk

SpecSelect == InitBulk /\ [][NextSelect]_vars

\* C30: Select All makes the selection the set of ids of the filtered
\* sessions, unless the selection already is that set: then, and only then,
\* it clears the selection.
C30_SelectAllAgainstFilteredView ==
    [][handleSelectAll =>
          selectedSessions' = IF selectedSessions = FilteredIds THEN {} ELSE FilteredIds]_vars

-----------------------------------------------------------------------------
(* useWebSocket: the connection *)

WEBSOCKET_RECONNECT == 5    \* HISTORY_LIMITS.WEBSOCKET_RECONNECT: maxReconnectAttempts

\* close codes of the close events the socket receives: normal closure, going
\* away, abnormal closure (no close frame: transport lost or handshake
\* failed) and internal server error
CloseCodes == {1000, 1001, 1006, 1011}

MaxSockets == 5     \* WebSocket objects the hook creates while it is followed

\* new WebSocket(endpoints.websocket), the id-th socket the hook creates;
\* closeEvent tells whether the socket's close event has been dispatched
NewWebSocket(id) == [id |-> id, readyState |-> "CONNECTING", closeEvent |-> FALSE]

\* React drops the state updates of a component that is no longer mounted
setIsConnected(value) == isConnected' = IF mounted THEN value ELSE isConnected

setConnectionStatus(value) == connectionStatus' = IF mounted THEN value ELSE connectionStatus

\* connect()
connect ==
    IF ws # <<>> /\ ws.readyState \in {"CONNECTING", "OPEN"}
    THEN UNCHANGED <<ws, connectionStatus>>
    ELSE /\ setConnectionStatus("connecting")
         /\ ws' = NewWebSocket(IF ws = <<>> THEN 1 ELSE ws.id + 1)

\* the component is mounted and the effect has called connect()
InitSocket ==
    /\ mode = "socket"
    /\ defaultState = ListDefaults
    /\ enableUrlSync = TRUE
    /\ searchParams = <<>>
    /\ timer = <<>>
    /\ calls = <<>>
    /\ queries = <<>>
    /\ reqs = {}
    /\ serverTotal = 0
    /\ created = 0
    /\ sessions = <<>>
    /\ engine = "v8"
    /\ timezone = 0
    /\ derived = <<>>
    /\ NoMessage
    /\ NoBulk
    /\ pageFetch = <<>>
    /\ selectedSessionId = Null
    /\ NoHistory
    /\ mounted = TRUE
    /\ ws = NewWebSocket(1)
    /\ reconnectAttempts = 0
    /\ isConnected = FALSE
    /\ connectionStatus = "connecting"
    /\ reconnectTimer = <<>>

\* ws.current.onopen: the handshake has succeeded
onopen ==
    /\ mode = "socket"
    /\ ws.readyState = "CONNECTING"
    /\ ws' = [ws EXCEPT !.readyState = "OPEN"]
    /\ setIsConnected(TRUE)
    /\ setConnectionStatus("connected")
    /\ reconnectAttempts' = 0
    /\ UNCHANGED <<mounted, reconnectTimer>>
    /\ UNCHANGED <<urlVars, listVars, sortVars, selectedSessionId, historyVars, liveVars, bulkVars,
                   fetchVars>>

\* ws.current.onerror: the browser has failed the connection (the handshake
\* failed, or the connection broke in a way the browser reports as an
\* error); the socket is closed and its close event follows
onerror ==
    /\ mode = "socket"
    /\ ws.readyState \in {"CONNECTING", "OPEN", "CLOSING"}
    /\ ~ws.closeEvent
    /\ ws' = [ws EXCEPT !.readyState = "CLOSED"]
    /\ setIsConnected(FALSE)
    /\ setConnectionStatus("error")
    /\ UNCHANGED <<mounted, reconnectAttempts, reconnectTimer>>
    /\ UNCHANGED <<urlVars, listVars, sortVars, selectedSessionId, historyVars, liveVars, bulkVars,
                   fetchVars>>

\* ws.current.onclose.  The code the close event carries: an open connection
\* is closed by the server with a close frame or is lost without one (1006);
\* a failed connection closes with 1006; close(1000) is answered with 1000
\* or not at all (1006).
onclose(code) ==
    /\ mode = "socket"
    /\ ~ws.closeEvent
    /\ CASE ws.readyState = "OPEN"    -> code \in CloseCodes
         [] ws.readyState = "CLOSING" -> code \in {1000, 1006}
         [] ws.readyState = "CLOSED"  -> code = 1006
         [] OTHER                     -> FALSE
    /\ ws' = [ws EXCEPT !.readyState = "CLOSED", !.closeEvent = TRUE]
    /\ IF code = 1006
       THEN /\ setConnectionStatus("error")
            /\ UNCHANGED <<isConnected, reconnectTimer>>
       ELSE /\ setIsConnected(FALSE)
            /\ setConnectionStatus("disconnected")
            /\ reconnectTimer' =
                  LET power == 1000 * pow(2, reconnectAttempts)
                      delay == IF power < 30000 THEN power ELSE 30000
                  IN  IF code # 1000 /\ code # 1006
                             /\ reconnectAttempts < WEBSOCKET_RECONNECT
                      THEN Append(reconnectTimer, delay)
                      ELSE reconnectTimer
    /\ UNCHANGED <<mounted, reconnectAttempts>>
    /\ UNCHANGED <<urlVars, listVars, sortVars, selectedSessionId, historyVars, liveVars, bulkVars,
                   fetchVars>>

\* the callback of onclose's setTimeout; nothing clears the timer
reconnectTimeout ==
    /\ mode = "socket"
    /\ reconnectTimer # <<>>
    /\ ws.id < MaxSockets
    /\ reconnectTimer' = Tail(reconnectTimer)
    /\ reconnectAttempts' = reconnectAttempts + 1
    /\ connect
    /\ UNCHANGED <<mounted, isConnected>>
    /\ UNCHANGED <<urlVars, listVars, sortVars, selectedSessionId, historyVars, liveVars, bulkVars,
                   fetchVars>>

\* the component unmounts: the effect's cleanup runs ws.current.close(1000, ...)
cleanup ==
    /\ mode = "socket"
    /\ mounted
    /\ mounted' = FALSE
    /\ ws' = IF ws.readyState \in {"CONNECTING", "OPEN"}
             THEN [ws EXCEPT !.readyState = "CLOSING"]
             ELSE ws
    /\ UNCHANGED <<reconnectAttempts, isConnected, connectionStatus, reconnectTimer>>
    /\ UNCHANGED <<urlVars, listVars, sortVars, selectedSessionId, historyVars, liveVars, bulkVars,
                   fetchVars>>

NextSocket ==
    \/ onopen
    \/ onerror
    \/ \E code \in CloseCodes : onclose(code)
    \/ reconnectTimeout
    \/ cleanup

SpecSocket == InitSocket /\ [][NextSocket]_vars

\* min(1000 * 2^n, 30000)
Backoff(n) == IF n >= 5 THEN 30000 ELSE 1000 * (2 ^ n)

\* C23: whenever the connection closes with a code other than 1000, a
\* reconnect is scheduled after min(1000 * 2^n, 30000) ms, n being the number
\* of reconnect attempts since the last successful open, unless 5 attempts
\* have been made without a successful open.
C23_ReconnectWithBackoff ==
    [][\A code \in CloseCodes :
          (mounted /\ onclose(code)) =>
              reconnectTimer' =
                  IF code # 1000 /\ reconnectAttempts < WEBSOCKET_RECONNECT
                  THEN Append(reconnectTimer, Backoff(reconnectAttempts))
                  ELSE reconnectTimer]_vars

\* C26: while the component is mounted, isConnected is true only while the
\* current socket is open and the connection status is 'connected'.
C26_ConnectedOnlyWhileOpen ==
    (mounted /\ isConnected) => (ws.readyState = "OPEN" /\ connectionStatus = "connected")

\* the step creates a WebSocket
CreatesWebSocket == ws'.id # ws.id

\* C27: once the component is unmounted, the hook creates no WebSocket.
C27_NoSocketAfterUnmount ==
    [][~mounted => ~CreatesWebSocket]_vars

-----------------------------------------------------------------------------
(* useUndoRedo *)

UNDO_REDO == 5      \* HISTORY_LIMITS.UNDO_REDO, the default of maxHistorySize

MaxSupplied == 6    \* values passed to set and reset while the hook is followed
MaxBatch == 2       \* calls of the hook's functions between two renders
MaxEntries == 7     \* entries of the history beyond which undo and redo are not followed

\* what reading an array element that is not there gives: undefined.  The
\* values of the model are the numbers 0 (initialState), 1, 2, ... in the
\* order they are passed to set and reset.
undefinedEntry == -1

\* the updater of undo
undoUpdater(currentState) ==
    LET length   == Len(currentState.past)
        previous == IF length = 0 THEN undefinedEntry ELSE currentState.past[length]
        newPast  == IF length = 0 THEN <<>> ELSE SubSeq(currentState.past, 1, length - 1)
    IN  [past    |-> newPast,
         present |-> previous,
         future  |-> <<currentState.present>> \o currentState.future]

\* the updater of redo
redoUpdater(currentState) ==
    LET next      == IF currentState.future = <<>> THEN undefinedEntry
                     ELSE currentState.future[1]
        newFuture == IF currentState.future = <<>> THEN <<>> ELSE Tail(currentState.future)
    IN  [past    |-> Append(currentState.past, currentState.present),
         present |-> next,
         future  |-> newFuture]

\* the updater of set(newState).  array.slice(-count) gives the last `count`
\* elements, and the whole array for slice(-0).
setUpdater(currentState, newState) ==
    LET array == Append(currentState.past, currentState.present)
    IN  [past    |-> IF maxHistorySize = 0 \/ maxHistorySize >= Len(array) THEN array
                     ELSE SubSeq(array, Len(array) - maxHistorySize + 1, Len(array)),
         present |-> newState,
         future  |-> <<>>]

\* the body of undo(), with the canUndo its useCallback closed over.
\* setState(updater): React applies the updaters of a batch in the order of
\* the calls, each to the result of the one before; the functions of the hook
\* go on seeing the canUndo and canRedo of the last render until the next one.
undoCall ==
    IF ~canUndo THEN UNCHANGED <<history, batched>>
    ELSE /\ history' = undoUpdater(history)
         /\ batched' = batched + 1

\* the body of redo(), with the canRedo its useCallback closed over
redoCall ==
    IF ~canRedo THEN UNCHANGED <<history, batched>>
    ELSE /\ history' = redoUpdater(history)
         /\ batched' = batched + 1

InitUndo ==
    /\ mode = "undo"
    /\ defaultState = ListDefaults
    /\ enableUrlSync = TRUE
    /\ searchParams = <<>>
    /\ timer = <<>>
    /\ calls = <<>>
    /\ queries = <<>>
    /\ reqs = {}
    /\ serverTotal = 0
    /\ created = 0
    /\ sessions = <<>>
    /\ engine = "v8"
    /\ timezone = 0
    /\ derived = <<>>
    /\ NoMessage
    /\ NoBulk
    /\ pageFetch = <<>>
    /\ selectedSessionId = Null
    /\ NoSocket
    /\ maxHistorySize \in {2, UNDO_REDO}
    /\ history = [past |-> <<>>, present |-> 0, future |-> <<>>]
    /\ canUndo = FALSE
    /\ canRedo = FALSE
    /\ supplied = 0
    /\ batched = 0
    /\ keyEvent = <<>>

undo ==
    /\ mode = "undo"
    /\ batched < MaxBatch
    /\ Len(history.past) + Len(history.future) < MaxEntries
    /\ undoCall
    /\ UNCHANGED <<maxHistorySize, canUndo, canRedo, supplied, keyEvent>>
    /\ UNCHANGED <<urlVars, listVars, sortVars, selectedSessionId, socketVars, liveVars, bulkVars,
                   fetchVars>>

redo ==
    /\ mode = "undo"
    /\ batched < MaxBatch
    /\ Len(history.past) + Len(history.future) < MaxEntries
    /\ redoCall
    /\ UNCHANGED <<maxHistorySize, canUndo, canRedo, supplied, keyEvent>>
    /\ UNCHANGED <<urlVars, listVars, sortVars, selectedSessionId, socketVars, liveVars, bulkVars,
                   fetchVars>>

\* set(newState) with the next value
set ==
    /\ mode = "undo"
    /\ batched < MaxBatch
    /\ supplied < MaxSupplied
    /\ supplied' = supplied + 1
    /\ history' = setUpdater(history, supplied + 1)
    /\ batched' = batched + 1
    /\ UNCHANGED <<maxHistorySize, canUndo, canRedo, keyEvent>>
    /\ UNCHANGED <<urlVars, listVars, sortVars, selectedSessionId, socketVars, liveVars, bulkVars,
                   fetchVars>>

\* reset(newState) with the next value
reset ==
    /\ mode = "undo"
    /\ batched < MaxBatch
    /\ supplied < MaxSupplied
    /\ supplied' = supplied + 1
    /\ history' = [past |-> <<>>, present |-> supplied + 1, future |-> <<>>]
    /\ batched' = batched + 1
    /\ UNCHANGED <<maxHistorySize, canUndo, canRedo, keyEvent>>
    /\ UNCHANGED <<urlVars, listVars, sortVars, selectedSessionId, socketVars, liveVars, bulkVars,
                   fetchVars>>

\* the component renders after a batch of state updates: canUndo and canRedo
\* are computed anew and undo and redo are made anew with them
render ==
    /\ mode = "undo"
    /\ batched > 0
    /\ batched' = 0
    /\ canUndo' = (Len(history.past) > 0)
    /\ canRedo' = (Len(history.future) > 0)
    /\ UNCHANGED <<maxHistorySize, history, supplied, keyEvent>>
    /\ UNCHANGED <<urlVars, listVars, sortVars, selectedSessionId, socketVars, liveVars, bulkVars,
                   fetchVars>>

\* the keydown listeners on document.  The code that adds handleKeyDown is the
\* function given to useCallback, which memoizes the function and does not
\* call it, and the hook drops what useCallback returns: nothing is added.
documentListeners == {}

\* keys pressed: Ctrl/Cmd+Z, Ctrl/Cmd+Shift+Z and a plain z
KeyEvents ==
    {[key |-> "z", modifier |-> TRUE,  shiftKey |-> FALSE, defaultPrevented |-> FALSE],
     [key |-> "z", modifier |-> TRUE,  shiftKey |-> TRUE,  defaultPrevented |-> FALSE],
     [key |-> "z", modifier |-> FALSE, shiftKey |-> FALSE, defaultPrevented |-> FALSE]}

\* handleKeyDown(event); modifier stands for event.metaKey || event.ctrlKey
handleKeyDown(event) ==
    IF event.modifier /\ event.key = "z"
    THEN /\ keyEvent' = [event EXCEPT !.defaultPrevented = TRUE]
         /\ IF event.shiftKey THEN redoCall ELSE undoCall
    ELSE /\ keyEvent' = event
         /\ UNCHANGED <<history, batched>>

\* a key is pressed: the browser dispatches keydown to document's listeners
keydown(event) ==
    /\ mode = "undo"
    /\ batched < MaxBatch
    /\ IF "handleKeyDown" \in documentListeners
       THEN handleKeyDown(event)
       ELSE /\ keyEvent' = event
            /\ UNCHANGED <<history, batched>>
    /\ UNCHANGED <<maxHistorySize, canUndo, canRedo, supplied>>
    /\ UNCHANGED <<urlVars, listVars, sortVars, selectedSessionId, socketVars, liveVars, bulkVars,
                   fetchVars>>

NextUndo ==
    \/ undo
    \/ redo
    \/ set
    \/ reset
    \/ render
    \/ \E event \in KeyEvents : keydown(event)

SpecUndo == InitUndo /\ [][NextUndo]_vars

\* C24: the number of undoable states never exceeds maxHistorySize, and
\* neither does past.length + future.length.
C24_HistoryBounded ==
    /\ Len(history.past) <= maxHistorySize
    /\ Len(history.past) + Len(history.future) <= maxHistorySize

\* C25: a Cmd/Ctrl+Z key press undoes and a Cmd/Ctrl+Shift+Z key press redoes
\* (when there is something to undo or redo).
C25_ShortcutsUndoRedo ==
    [][\A event \in KeyEvents :
          (keydown(event) /\ event.modifier /\ event.key = "z") =>
              IF event.shiftKey
              THEN canRedo => history' = redoUpdater(history)
              ELSE canUndo => history' = undoUpdater(history)]_vars

\* the entries of the history, oldest first
Entries == history.past \o <<history.present>> \o history.future

\* C29: present is always the initial value or a value passed to set or
\* reset, never undefined, and the entries of past, present and future are
\* such values, each at most once.
C29_PresentAlwaysSupplied ==
    /\ history.present \in 0..supplied
    /\ \A k \in 1..Len(Entries) : Entries[k] \in 0..supplied
    /\ \A k, l \in 1..Len(Entries) : k # l => Entries[k] # Entries[l]
====
